---- MODULE Spec2Model ----
(***************************************************************************)
(* Trinoise (src/src/lib.rs): aligned, next, tri and signature.            *)
(*                                                                         *)
(* The crate is four free functions over integers.  The model is one call  *)
(* of one public function: Init chooses the function (entry) and its       *)
(* arguments, the actions are the steps of that call.  aligned and tri are *)
(* bounded computations and are operators; the unbounded loop of next and  *)
(* the while loop of signature are actions, one per loop step.             *)
(*                                                                         *)
(* `end` is a u64.  It is kept as NumLimbs limbs of LimbBase, least        *)
(* significant first, so that base.pow(base) wraps exactly as the code's   *)
(* does.  Whether arithmetic that overflows (the multiplication in pow, the *)
(* u8 subtraction base - 2 in tri, the u8 addition sum += 1 in next)       *)
(* panics or wraps depends on the build                                    *)
(* (overflow checks are on in debug builds and off in release builds):     *)
(* `checks` is chosen in Init and never changes.                           *)
(***************************************************************************)
EXTENDS Integers, Sequences, FiniteSets

\* Largest in-domain base whose whole period is explored.
MaxBase == 5

\* u64 as 4 limbs of 16 bits.
LimbBase == 65536
NumLimbs == 4

VARIABLES
    entry,   \* the public function called: signature, next, aligned or tri
    base,    \* the base argument (u8)
    arg,     \* the v (or c) argument of a direct call of next, aligned or tri
    checks,  \* TRUE: arithmetic overflow panics (debug); FALSE: it wraps
    pc,      \* position of the call
    end,     \* signature: end, a u64 in limbs
    v,       \* signature: the cursor v
    r,       \* signature: the vector r
    n,       \* signature: n, the value next returned
    nv,      \* next: its own v
    sum,     \* next: sum
    a,       \* next: a
    ret,     \* value returned by a direct call of next, aligned or tri
    vs       \* history: the cursor values signature passed to next, in order

vars == <<entry, base, arg, checks, pc, end, v, r, n, nv, sum, a, ret, vs>>

----------------------------------------------------------------------------
(* u64 arithmetic *)

\* x as u64, for 0 <= x < LimbBase * LimbBase.
ToU64(x) ==
    [i \in 1..NumLimbs |->
        IF i = 1 THEN x % LimbBase ELSE IF i = 2 THEN x \div LimbBase ELSE 0]

\* x < y on u64.
LtU64(x, y) ==
    \E i \in 1..NumLimbs :
        /\ x[i] < y[i]
        /\ \A j \in (i + 1)..NumLimbs : x[j] = y[j]

RECURSIVE MulFrom(_, _, _, _)
\* Limbs i.. of x * m + carry, and the carry out of the top limb (m < 256).
MulFrom(x, m, i, carry) ==
    IF i > NumLimbs
    THEN [val |-> <<>>, carry |-> carry]
    ELSE LET t == x[i] * m + carry
             rest == MulFrom(x, m, i + 1, t \div LimbBase)
         IN  [val |-> <<t % LimbBase>> \o rest.val, carry |-> rest.carry]

RECURSIVE pow(_, _)
\* (b as u64).pow(e): the wrapped value, and whether a multiplication overflowed.
pow(b, e) ==
    IF e = 0
    THEN [val |-> ToU64(1), overflow |-> FALSE]
    ELSE LET p == pow(b, e - 1)
             m == MulFrom(p.val, b, 1, 0)
         IN  [val |-> m.val, overflow |-> p.overflow \/ m.carry # 0]

----------------------------------------------------------------------------
(* aligned and tri *)

RECURSIVE alignedOffByOneFrom(_, _, _)
alignedOffByOneFrom(x, b, k) ==
    IF k = 0 THEN 0
    ELSE (IF x % b = k THEN 1 ELSE 0) + alignedOffByOneFrom(x \div b, b, k - 1)

\* Mutant of aligned: the reference digits run over (1..=base).rev().
alignedOffByOne(x, b) == alignedOffByOneFrom(x, b, b)

RECURSIVE alignedRevFrom(_, _, _)
alignedRevFrom(x, b, k) ==
    IF k = 0 THEN 0
    ELSE (IF x % b = b - k THEN 1 ELSE 0) + alignedRevFrom(x \div b, b, k - 1)

\* Mutant of aligned: the reference digits run over 0..base, not reversed.
alignedRev(x, b) == alignedRevFrom(x, b, b)

RECURSIVE alignedFrom(_, _, _)
\* The last k iterations of aligned's for loop: i runs k-1, k-2, ..., 0.
alignedFrom(x, b, k) ==
    IF k = 0 THEN 0
    ELSE (IF x % b = k - 1 THEN 1 ELSE 0) + alignedFrom(x \div b, b, k - 1)

aligned(x, b) == alignedFrom(x, b, b)

\* The outcome of a call that may panic: the value returned, or a panic.
Returned(x) == [panic |-> FALSE, val |-> x]
Panicked == [panic |-> TRUE, val |-> 0]

\* x - y on u8: the wrapped difference, and whether it overflowed.
SubU8(x, y) == [val |-> (x + 256 - y) % 256, overflow |-> x < y]

\* x + y on u8: the wrapped sum, and whether it overflowed.
AddU8(x, y) == [val |-> (x + y) % 256, overflow |-> x + y > 255]

\* Mutant of tri: base - 1 maps to 1 and everything else to 2.
triSwapped(c, b) ==
    IF c = 0 THEN Returned(0)
    ELSE IF SubU8(b, 1).overflow /\ checks THEN Panicked
    ELSE IF c = SubU8(b, 1).val THEN Returned(1)
    ELSE Returned(2)

\* c == 0 is tested first; base - 2 is a u8 subtraction, evaluated only when
\* c != 0: it panics when it overflows and overflow checks are on, and wraps
\* otherwise.
tri(c, b) ==
    IF c = 0 THEN Returned(0)
    ELSE IF SubU8(b, 2).overflow /\ checks THEN Panicked
    ELSE IF c = SubU8(b, 2).val THEN Returned(1)
    ELSE Returned(2)

----------------------------------------------------------------------------
(* The calls *)

RECURSIVE Pow(_, _)
\* b^e as a mathematical integer (for the arguments Init draws).
Pow(b, e) == IF e = 0 THEN 1 ELSE b * Pow(b, e - 1)

\* Bases signature is called with: 0 and 1 (below the domain), the in-domain
\* bases up to MaxBase, and 16, the least base whose 16^16 = 2^64 wraps.
SignatureBases == (0..MaxBase) \cup {16}

\* Values of c tri is called with: the run lengths of the bases explored, and
\* 254 and 255, the wrapped values of 0 - 2 and 1 - 2.
TriArgs == (0..MaxBase) \cup {254, 255}

\* base.pow(base) for every base signature is called with, computed once.
BasePow == [b \in SignatureBases |-> pow(b, b)]

Init ==
    /\ checks \in BOOLEAN
    /\ \/ /\ entry = "signature"
          /\ base \in SignatureBases
          /\ arg = 0
       \/ /\ entry \in {"next", "aligned"}
          /\ base \in 2..MaxBase
          /\ arg \in 0..(Pow(base, base) - 1)
       \/ /\ entry = "tri"
          /\ base \in 0..MaxBase
          /\ arg \in TriArgs
    /\ pc = "start"
    /\ end = ToU64(0)
    /\ v = 0
    /\ r = <<>>
    /\ n = 0
    /\ nv = 0
    /\ sum = 0
    /\ a = 0
    /\ ret = 0
    /\ vs = <<>>

\* tri(arg, base), called directly.
TriCall ==
    /\ pc = "start"
    /\ entry = "tri"
    /\ IF tri(arg, base).panic
       THEN /\ pc' = "panic"
            /\ UNCHANGED ret
       ELSE /\ ret' = tri(arg, base).val
            /\ pc' = "done"
    /\ UNCHANGED <<entry, base, arg, checks, end, v, r, n, nv, sum, a, vs>>

\* aligned(arg, base), called directly.
AlignedCall ==
    /\ pc = "start"
    /\ entry = "aligned"
    /\ ret' = aligned(arg, base)
    /\ pc' = "done"
    /\ UNCHANGED <<entry, base, arg, checks, end, v, r, n, nv, sum, a, vs>>

\* next(arg, base), called directly: sum = 0, a = aligned(v, base).
NextCall ==
    /\ pc = "start"
    /\ entry = "next"
    /\ nv' = arg
    /\ sum' = 0
    /\ a' = aligned(arg, base)
    /\ pc' = "next"
    /\ UNCHANGED <<entry, base, arg, checks, end, v, r, n, ret, vs>>

\* next's loop, a == b: sum += 1; v += 1; a = b.  sum is a u8: at 255 the
\* addition panics when overflow checks are on and wraps to 0 otherwise.
\* (v + 1 is a u64 addition; nv stays far below 2^64 in every call explored.)
NextStep ==
    /\ pc = "next"
    /\ LET b == aligned(nv + 1, base)
       IN  /\ a = b
           /\ IF AddU8(sum, 1).overflow /\ checks
              THEN /\ pc' = "panic"
                   /\ UNCHANGED <<sum, nv, a>>
              ELSE /\ sum' = AddU8(sum, 1).val
                   /\ nv' = nv + 1
                   /\ a' = b
                   /\ UNCHANGED pc
    /\ UNCHANGED <<entry, base, arg, checks, end, v, r, n, ret, vs>>

\* next's loop, a != b: break and return sum.
NextBreak ==
    /\ pc = "next"
    /\ a # aligned(nv + 1, base)
    /\ IF entry = "signature"
       THEN /\ n' = sum
            /\ pc' = "push"
            /\ UNCHANGED ret
       ELSE /\ ret' = sum
            /\ pc' = "done"
            /\ UNCHANGED n
    /\ UNCHANGED <<entry, base, arg, checks, end, v, r, nv, sum, a, vs>>

\* signature: base.pow(base) overflows and overflow checks are on.
SigPowPanic ==
    /\ pc = "start"
    /\ entry = "signature"
    /\ BasePow[base].overflow
    /\ checks
    /\ pc' = "panic"
    /\ UNCHANGED <<entry, base, arg, checks, end, v, r, n, nv, sum, a, ret, vs>>

\* signature: end = base.pow(base); v = 0; r = vec![].
SigStart ==
    /\ pc = "start"
    /\ entry = "signature"
    /\ ~(BasePow[base].overflow /\ checks)
    /\ end' = BasePow[base].val
    /\ v' = 0
    /\ r' = <<>>
    /\ pc' = "loop"
    /\ UNCHANGED <<entry, base, arg, checks, n, nv, sum, a, ret, vs>>

\* Mutant of SigCallNext: the loop guard is v < end.
SigCallNextInclusive ==
    /\ pc = "loop"
    /\ LtU64(ToU64(v), end)
    /\ nv' = v
    /\ sum' = 0
    /\ a' = aligned(v, base)
    /\ vs' = Append(vs, v)
    /\ pc' = "next"
    /\ UNCHANGED <<entry, base, arg, checks, end, v, r, n, ret>>

\* signature: v + 1 < end holds, call next(v, base).
SigCallNext ==
    /\ pc = "loop"
    /\ LtU64(ToU64(v + 1), end)
    /\ nv' = v
    /\ sum' = 0
    /\ a' = aligned(v, base)
    /\ vs' = Append(vs, v)
    /\ pc' = "next"
    /\ UNCHANGED <<entry, base, arg, checks, end, v, r, n, ret>>

\* Mutant of SigPush: the cursor advances by n only.
SigPushNoSkip ==
    /\ pc = "push"
    /\ v' = v + n
    /\ IF tri(n, base).panic
       THEN /\ pc' = "panic"
            /\ UNCHANGED r
       ELSE /\ r' = Append(r, tri(n, base).val)
            /\ pc' = "loop"
    /\ UNCHANGED <<entry, base, arg, checks, end, n, nv, sum, a, ret, vs>>

\* signature: v += n + 1; r.push(tri(n, base)).
SigPush ==
    /\ pc = "push"
    /\ v' = v + n + 1
    /\ IF tri(n, base).panic
       THEN /\ pc' = "panic"
            /\ UNCHANGED r
       ELSE /\ r' = Append(r, tri(n, base).val)
            /\ pc' = "loop"
    /\ UNCHANGED <<entry, base, arg, checks, end, n, nv, sum, a, ret, vs>>

\* Mutant of SigExit: the trailing 0 is not pushed.
SigExitNoTrailing ==
    /\ pc = "loop"
    /\ ~LtU64(ToU64(v + 1), end)
    /\ pc' = "done"
    /\ UNCHANGED <<entry, base, arg, checks, end, v, r, n, nv, sum, a, ret, vs>>

\* signature: v + 1 < end fails; r.push(0) and return r.
SigExit ==
    /\ pc = "loop"
    /\ ~LtU64(ToU64(v + 1), end)
    /\ r' = Append(r, 0)
    /\ pc' = "done"
    /\ UNCHANGED <<entry, base, arg, checks, end, v, n, nv, sum, a, ret, vs>>

Next ==
    \/ TriCall
    \/ AlignedCall
    \/ NextCall
    \/ NextStep
    \/ NextBreak
    \/ SigPowPanic
    \/ SigStart
    \/ SigCallNext
    \/ SigPush
    \/ SigExit

Spec == Init /\ [][Next]_vars

\* The call is a single thread running to completion: a step that can be
\* taken is taken.
FairSpec == Spec /\ WF_vars(Next)

----------------------------------------------------------------------------
(* Vocabulary of the properties *)

\* signature was called with a base whose whole period is explored.
SigInDomain == entry = "signature" /\ base \in 2..MaxBase

\* N^N for the base of the call.
Period == Pow(base, base)

\* x is the first value of a maximal run of equal aligned counts in [0, N^N).
RunStart(x, N) == x = 0 \/ aligned(x - 1, N) # aligned(x, N)

\* The number of values in the maximal run that starts at x.
RunSize(x, N) ==
    LET e == CHOOSE e \in (x + 1)..Pow(N, N) :
                 /\ e = Pow(N, N) \/ RunStart(e, N)
                 /\ \A f \in (x + 1)..(e - 1) : ~RunStart(f, N)
    IN  e - x

RECURSIVE IdentityFrom(_, _)
IdentityFrom(N, k) ==
    IF k = N THEN 0 ELSE (N - 1 - k) * Pow(N, k) + IdentityFrom(N, k + 1)

\* The number whose base-N digits, most significant first, are 0, 1, ..., N-1.
IdentityValue(N) == IdentityFrom(N, 0)

\* How many elements of r equal k.
Count(k) == Cardinality({i \in 1..Len(r) : r[i] = k})

----------------------------------------------------------------------------
(* Properties *)

\* C1: for every base N > 2, in every iteration of signature's loop the run
\* length n that next returned is 0, N-2 or N-1, so tri's catch-all branch is
\* taken with n = N-1 only.
RunLengthThreeValued ==
    (SigInDomain /\ base > 2 /\ pc = "push") =>
        /\ n \in {0, base - 2, base - 1}
        /\ (n # 0 /\ n # base - 2) => (n = base - 1 /\ tri(n, base) = Returned(2))

RunLengthWitness ==
    SigInDomain /\ base = 4 /\ pc = "push" /\ n = 3 /\ tri(n, base) = Returned(2)

\* C2: signature(N) is the list, in order, of one symbol per maximal run of
\* equal aligned counts in [0, N^N), each symbol tri(run size - 1, N);
\* signature(2) and signature(3) are the listed vectors, and for base 3
\* aligned(0..7) and next(0..6) are the listed values.
SignatureIsRunList ==
    /\ (SigInDomain /\ pc = "done") =>
          LET N == base
              last == Pow(N, N) - 1
              starts == {x \in 0..last : RunStart(x, N)}
          IN  /\ Len(r) = Cardinality(starts)
              /\ Len(vs) = Len(r) - 1
              /\ \A i \in 1..Len(vs) :
                    /\ vs[i] \in starts \ {last}
                    /\ i > 1 => vs[i - 1] < vs[i]
                    /\ r[i] = tri(RunSize(vs[i], N) - 1, N).val
              /\ last \in starts
              /\ r[Len(r)] = tri(RunSize(last, N) - 1, N).val
              /\ N = 2 => r = <<0, 0, 0, 0>>
              /\ N = 3 => r = <<1, 2, 0, 1, 0, 1, 2, 0, 1, 0, 1, 2, 0, 1, 0>>
    /\ (entry = "aligned" /\ base = 3 /\ arg <= 7 /\ pc = "done") =>
          ret = <<1, 1, 2, 2, 2, 3, 1, 1>>[arg + 1]
    /\ (entry = "next" /\ base = 3 /\ arg <= 6 /\ pc = "done") =>
          ret = <<1, 0, 2, 1, 0, 0, 1>>[arg + 1]

SignatureIsRunListWitness ==
    /\ SigInDomain /\ base = 3 /\ pc = "done"
    /\ Len(r) = 15
    /\ vs = <<0, 2, 5, 6, 8, 9, 11, 14, 15, 17, 18, 20, 23, 24>>

\* C3: for every base N >= 2, signature(N) terminates: each iteration moves
\* the cursor forward by n + 1 >= 1, the loop of next stops, the outer loop
\* runs at most N^N times, and the last element returned is 0.
SignatureTerminates ==
    /\ [][(entry = "signature" /\ pc = "push") =>
              (v' = v + n + 1 /\ v' > v)]_vars
    /\ [](SigInDomain => Len(vs) <= Period)
    /\ []((SigInDomain /\ pc = "done") => r[Len(r)] = 0)
    /\ (pc = "next") ~> (pc # "next")
    /\ (SigInDomain /\ pc = "start") ~> (pc = "done")

SignatureTerminatesWitness ==
    /\ SigInDomain /\ base = 5 /\ pc = "done"
    /\ Len(vs) = 1094
    /\ r[Len(r)] = 0

\* C4: signature(N) with N^N not fitting in a u64 fails with an overflow
\* error; it never returns a sequence computed from a wrapped end.
OverflowRejected ==
    (entry = "signature" /\ BasePow[base].overflow) => pc # "done"

\* C5: signature(0) and signature(1) fail with an error; they return no
\* sequence.
LowBaseRejected ==
    (entry = "signature" /\ base < 2) => pc # "done"

\* C6: for every base N >= 2 and v in [0, N^N), aligned(v, N) is in [0, N],
\* and aligned of the identity value is exactly N.
AlignedRange ==
    (entry = "aligned" /\ pc = "done") =>
        /\ ret \in 0..base
        /\ arg = IdentityValue(base) => ret = base

AlignedRangeWitness ==
    /\ entry = "aligned" /\ pc = "done"
    /\ base = 4 /\ arg = 27 /\ arg = IdentityValue(base)
    /\ ret = 4

\* C7: for every base N >= 2 and every v in [0, N^N - 1), next(v, N) is
\* 0, N-2 or N-1.
NextThreeValued ==
    (entry = "next" /\ pc = "done" /\ arg < Period - 1) =>
        ret \in {0, base - 2, base - 1}

\* C8: for every base N > 2, signature(N) holds as many 0s as 1s; the counts
\* of 0, 1, 2 are 6, 6, 3 for base 3 and 470, 470, 155 for base 5.
FrequencyLaw ==
    (SigInDomain /\ base > 2 /\ pc = "done") =>
        /\ Count(0) = Count(1)
        /\ base = 3 => <<Count(0), Count(1), Count(2)>> = <<6, 6, 3>>
        /\ base = 5 => <<Count(0), Count(1), Count(2)>> = <<470, 470, 155>>

FrequencyLawWitness ==
    /\ SigInDomain /\ base = 5 /\ pc = "done"
    /\ Count(0) = 470 /\ Count(2) = 155

\* C9: for every base N > 2, no two adjacent elements of signature(N) are
\* equal, in the returned sequence and in every prefix built on the way.
NoRepeat ==
    (SigInDomain /\ base > 2) =>
        /\ Len(r) >= 2 => r[Len(r)] # r[Len(r) - 1]
        /\ pc = "done" => \A i \in 1..(Len(r) - 1) : r[i] # r[i + 1]

NoRepeatWitness ==
    /\ SigInDomain /\ base = 4 /\ pc = "done"
    /\ Len(r) = 108
    /\ \A i \in 1..(Len(r) - 1) : r[i] # r[i + 1]

\* C10: for every base N >= 2, the cursor of signature(N) never passes
\* N^N - 1, next is never called at v >= N^N - 1, aligned is never evaluated
\* at a value >= N^N, and the loop exits with v = N^N - 1.
CursorInPeriod ==
    (SigInDomain /\ pc # "start") =>
        /\ v <= Period - 1
        /\ pc = "next" => (v < Period - 1 /\ nv + 1 <= Period - 1)
        /\ pc = "push" => v + n + 1 <= Period - 1
        /\ pc = "done" => v = Period - 1

CursorInPeriodWitness ==
    SigInDomain /\ base = 5 /\ pc = "done" /\ v = 3124 /\ Len(vs) > 1000

====
